---------------------------- MODULE Spec2Model ----------------------------
(***************************************************************************)
(* Model of TwitterBot (src/TwitterBot.py): the bot's configuration state, *)
(* its three snapshot files, and its public operations against a remote    *)
(* social-graph API.  Every public method is one action that computes the  *)
(* whole method: the files it leaves behind, the remote calls it issued    *)
(* (the variable log) and the way it ended (the variable outcome).  The    *)
(* step rest takes the object from the end of one call to the next call.   *)
(*                                                                         *)
(* A python set is iterated in ascending order of its elements: CPython    *)
(* iterates a set of small integers deterministically, and the same order  *)
(* is used for every loop over a set and every file written from a set.    *)
(***************************************************************************)
EXTENDS Integers, Sequences, FiniteSets

VARIABLES
    BOT_CONFIG,          \* self.BOT_CONFIG: the dictionary of the configuration
    TWITTER_CONNECTION,  \* self.TWITTER_CONNECTION: "None" or "connection"
    files,               \* the disk: the snapshot file at each path
    remote,              \* the remote account graph and the paging of its listings
    op,                  \* the method that has just ended, "rest" between two calls
    log,                 \* the calls that method issued, in order
    outcome,             \* how that method ended
    answer,              \* what the remote returned to the listing or search of that method
    syncs,               \* how many sync_follows in a row have returned (up to 2)
    running              \* FALSE once quit() has ended the process

vars == <<BOT_CONFIG, TWITTER_CONNECTION, files, remote, op, log, outcome, answer,
          syncs, running>>

(***************************************************************************)
(* Bounds of the model.                                                    *)
(***************************************************************************)
\* number of distinct remote accounts besides the bot itself
MaxId == 3
\* largest page size the remote listing endpoint uses
MaxPageSize == 2
\* largest number of tweets one search returns
MaxTweets == 2

\* identifiers straddle a decimal digit boundary (9, 10, 11, ...)
IdBase == 8
Ids == (IdBase + 1)..(IdBase + MaxId)
\* the bot's own account
SelfId == IdBase

(***************************************************************************)
(* Small helpers.                                                          *)
(***************************************************************************)
Min(S) == CHOOSE x \in S : \A y \in S : x <= y

RECURSIVE SetOrder(_)
\* the iteration order of a python set of integers (see the module comment)
SetOrder(S) == IF S = {} THEN << >> ELSE <<Min(S)>> \o SetOrder(S \ {Min(S)})

Range(s) == {s[i] : i \in 1..Len(s)}

Event(c, a, r) == [call |-> c, arg |-> a, res |-> r]

(***************************************************************************)
(* File lines: "%s\n" % id writes the decimal digits of id, int(line)      *)
(* parses them back.  A line is the sequence of its digits.                *)
(***************************************************************************)
RECURSIVE str(_)
str(n) == IF n < 10 THEN <<n>> ELSE str(n \div 10) \o <<n % 10>>

RECURSIVE int(_)
int(line) == IF Len(line) = 1 THEN line[1]
             ELSE 10 * int(SubSeq(line, 1, Len(line) - 1)) + line[Len(line)]

\* for x in S: out_file.write("%s\n" % x)
WriteLines(S) == [i \in 1..Cardinality(S) |-> str(SetOrder(S)[i])]

\* for line in in_file: l.append(int(line)); return set(l)
ReadSet(content) == {int(content[i]) : i \in 1..Len(content)}

(***************************************************************************)
(* Configuration.                                                          *)
(***************************************************************************)
required_parameters ==
    <<"OAUTH_TOKEN", "OAUTH_SECRET", "CONSUMER_KEY", "CONSUMER_SECRET",
      "TWITTER_HANDLE", "ALREADY_FOLLOWED_FILE", "FOLLOWERS_FILE", "FOLLOWS_FILE">>

\* a path of the disk: whether a file is there, and its lines
NoFile == [exists |-> FALSE, lines |-> << >>]
File(content) == [exists |-> TRUE, lines |-> content]
Paths == {"already.txt", "followers.txt", "follows.txt"}
Handle == "bot"

\* a configuration file, as the fields of each of its lines after split(":")
GoodConfig ==
    << <<"OAUTH_TOKEN", "tok">>, <<"OAUTH_SECRET", "sec">>,
       <<"CONSUMER_KEY", "key">>, <<"CONSUMER_SECRET", "csec">>,
       <<"TWITTER_HANDLE", Handle>>, <<"ALREADY_FOLLOWED_FILE", "already.txt">>,
       <<"FOLLOWERS_FILE", "followers.txt">>, <<"FOLLOWS_FILE", "follows.txt">> >>

\* the same file without its OAUTH_TOKEN line
MissingKeyConfig == SubSeq(GoodConfig, 2, Len(GoodConfig))

\* a file whose OAUTH_TOKEN line has nothing after the colon
EmptyKeyConfig == << <<"OAUTH_TOKEN", "">> >> \o MissingKeyConfig

\* a file with a line that holds no colon
MalformedConfig == << <<"OAUTH_SECRET", "sec">>, <<"garbage">> >>

ConfigFileList == <<GoodConfig, MissingKeyConfig, EmptyKeyConfig, MalformedConfig>>

ConfigFiles == Range(ConfigFileList)

ConfigNo(config_file) == CHOOSE i \in 1..Len(ConfigFileList) : ConfigFileList[i] = config_file

EmptyConfig == [k \in {} |-> ""]

Configured(cfg) == DOMAIN cfg # {}

RECURSIVE ReadConfig(_, _, _)
\* the loop of bot_setup over the lines of the file: line[1] raises IndexError
\* on a line without a colon, after the earlier lines have been stored
ReadConfig(cfg, lines, i) ==
    IF i > Len(lines) THEN [cfg |-> cfg, ok |-> TRUE]
    ELSE IF Len(lines[i]) < 2 THEN [cfg |-> cfg, ok |-> FALSE]
    ELSE ReadConfig([k \in DOMAIN cfg \cup {lines[i][1]} |->
                        IF k = lines[i][1] THEN lines[i][2] ELSE cfg[k]],
                    lines, i + 1)

missing_parameters(cfg) ==
    \E i \in 1..Len(required_parameters) :
        \/ required_parameters[i] \notin DOMAIN cfg
        \/ cfg[required_parameters[i]] = ""

\* if not os.path.isfile(sync_file): write ""
CreateSyncFiles(fs, cfg) ==
    [p \in Paths |->
        IF /\ p \in {cfg["ALREADY_FOLLOWED_FILE"], cfg["FOLLOWS_FILE"], cfg["FOLLOWERS_FILE"]}
           /\ ~fs[p].exists
        THEN File(<< >>) ELSE fs[p]]

\* bot_setup reading the file into a fresh dictionary
SetupFromScratch(cfg, conn, fs, config_file) ==
    LET read == ReadConfig(EmptyConfig, config_file, 1) IN
    IF ~read.ok
      THEN [cfg |-> read.cfg, conn |-> conn, fs |-> fs, outcome |-> "raised"]
    ELSE IF missing_parameters(read.cfg)
      THEN [cfg |-> EmptyConfig, conn |-> conn, fs |-> fs, outcome |-> "returned"]
    ELSE [cfg |-> read.cfg, conn |-> "connection",
          fs |-> CreateSyncFiles(fs, read.cfg), outcome |-> "returned"]

\* the whole of bot_setup: the state it leaves and the way it ends (the check of
\* the age of the sync files only prints a warning)
SetupResult(cfg, conn, fs, config_file) ==
    LET read == ReadConfig(cfg, config_file, 1) IN
    IF ~read.ok
      THEN [cfg |-> read.cfg, conn |-> conn, fs |-> fs, outcome |-> "raised"]
    ELSE IF missing_parameters(read.cfg)
      THEN [cfg |-> EmptyConfig, conn |-> conn, fs |-> fs, outcome |-> "returned"]
    ELSE [cfg |-> read.cfg, conn |-> "connection",
          fs |-> CreateSyncFiles(fs, read.cfg), outcome |-> "returned"]

(***************************************************************************)
(* The remote listing endpoint (followers.ids, friends.ids): it serves the *)
(* identifiers in ascending order, pageSize at a time; with overlap = 1 a  *)
(* page starts with the last identifier of the page before it.             *)
(***************************************************************************)
NoCursor == -1

ListingPage(S, cursor) ==
    LET s    == SetOrder(S)
        p    == IF cursor = NoCursor THEN 1 ELSE cursor
        last == IF p + remote.pageSize - 1 >= Len(s) THEN Len(s) ELSE p + remote.pageSize - 1
    IN  [ids |-> {s[i] : i \in p..last},
         next_cursor |-> IF last >= Len(s) THEN 0 ELSE last + 1 - remote.overlap]

Remotes ==
    {r \in [followers : SUBSET Ids, following : SUBSET Ids,
            pageSize : 1..MaxPageSize, overlap : {0, 1}] : r.overlap < r.pageSize}

(***************************************************************************)
(* What a method leaves behind: the files, the calls it issued in order    *)
(* (remote calls, and the opening of a snapshot file for writing), and how *)
(* it ended: "returned", "not_set_up" (the message of the guard, then      *)
(* return), "raised" (an exception left the method) or "quit".             *)
(***************************************************************************)
Result(fs, lg, out) == [fs |-> fs, log |-> lg, outcome |-> out]

\* what a method got from the one listing or search it asked the remote for:
\* ids is ...["ids"] of mutes.users.ids or of followers.ids(screen_name=user),
\* count the count argument of auto_follow_followers_of_user, statuses is
\* result["statuses"] of search.tweets
Answer(ids, count, statuses) == [ids |-> ids, count |-> count, statuses |-> statuses]

NoAnswer == Answer(<< >>, 0, << >>)

IsRemote(e) == e.call \notin {"open_rb", "open_wb", "open_ab"}

\* the number of remote calls among the events of lg
RemoteCalls(lg) == Cardinality({i \in 1..Len(lg) : IsRemote(lg[i])})

PathNo(path) == CHOOSE i \in 1..3 : <<"already.txt", "followers.txt", "follows.txt">>[i] = path

(***************************************************************************)
(* sync_follows.  failAt is the remote call of this run that raises        *)
(* TwitterHTTPError (0 and numbers past the last call: none does).         *)
(***************************************************************************)
\* every page is written with "wb"
AlwaysOverwrite(cursor, old, ids) == WriteLines(ids)

\* every page is written with "ab"
AlwaysAppend(cursor, old, ids) == old \o WriteLines(ids)

\* the first page is written with open(..., "wb"), the later ones with "ab"
PageWrite(cursor, old, ids) ==
    IF cursor = NoCursor THEN WriteLines(ids) ELSE old \o WriteLines(ids)

RECURSIVE SyncListing(_, _, _, _, _, _, _)
\* one listing of sync_follows: the first call and its "wb" write, then the
\* while loop with its "ab" writes
SyncListing(call, S, cfg, key, cursor, st, failAt) ==
    IF RemoteCalls(st.log) + 1 = failAt
      THEN Result(st.fs, Append(st.log, Event(call, cursor, "error")), "raised")
    ELSE IF key \notin DOMAIN cfg
      THEN Result(st.fs, Append(st.log, Event(call, cursor, "ok")), "raised")
    ELSE
      LET page    == ListingPage(S, cursor)
          path    == cfg[key]
          content == PageWrite(cursor, st.fs[path].lines, page.ids)
          mode    == IF cursor = NoCursor THEN "open_wb" ELSE "open_ab"
          st2     == Result([st.fs EXCEPT ![path] = File(content)],
                            st.log \o <<Event(call, cursor, "ok"),
                                        Event(mode, PathNo(path), "ok")>>,
                            st.outcome)
      IN  IF page.next_cursor # 0
            THEN SyncListing(call, S, cfg, key, page.next_cursor, st2, failAt)
            ELSE st2

SyncResult(cfg, conn, fs, failAt) ==
    IF conn = "None" \/ "TWITTER_HANDLE" \notin DOMAIN cfg
      THEN Result(fs, << >>, "raised")
    ELSE
      LET a == SyncListing("followers.ids", remote.followers, cfg, "FOLLOWERS_FILE",
                           NoCursor, Result(fs, << >>, "returned"), failAt)
      IN  IF a.outcome = "raised" THEN a
          ELSE SyncListing("friends.ids", remote.following, cfg, "FOLLOWS_FILE",
                           NoCursor, a, failAt)

(***************************************************************************)
(* The snapshot loads.  open(..., "rb") raises on a missing key or file.   *)
(***************************************************************************)
CanLoad(cfg, fs, key) == key \in DOMAIN cfg /\ fs[cfg[key]].exists

LoadSet(cfg, fs, key) == ReadSet(fs[cfg[key]].lines)

get_do_not_follow_list(cfg, fs) == LoadSet(cfg, fs, "ALREADY_FOLLOWED_FILE")
get_followers_list(cfg, fs) == LoadSet(cfg, fs, "FOLLOWERS_FILE")
get_follows_list(cfg, fs) == LoadSet(cfg, fs, "FOLLOWS_FILE")

(***************************************************************************)
(* The bulk operations.  bad is the set of identifiers for which the       *)
(* remote mutation raises TwitterHTTPError in this run.                    *)
(***************************************************************************)
RECURSIVE MutateEach(_, _, _, _, _, _)
\* for user_id in ids: one remote mutation each.  catches names the except
\* clause around the call: "Exception", "TwitterHTTPError" or "nothing".  With
\* no connection the call raises AttributeError before anything is sent.
MutateEach(call, ids, bad, catches, conn, lg) ==
    IF ids = << >> THEN [log |-> lg, outcome |-> "returned"]
    ELSE IF conn = "None"
      THEN IF catches = "Exception"
             THEN MutateEach(call, Tail(ids), bad, catches, conn, lg)
             ELSE [log |-> lg, outcome |-> "raised"]
    ELSE IF Head(ids) \in bad
      THEN IF catches = "nothing"
             THEN [log |-> Append(lg, Event(call, Head(ids), "error")), outcome |-> "raised"]
             ELSE MutateEach(call, Tail(ids), bad, catches, conn,
                             Append(lg, Event(call, Head(ids), "error")))
    ELSE MutateEach(call, Tail(ids), bad, catches, conn,
                    Append(lg, Event(call, Head(ids), "ok")))

\* every follower is followed again
EveryFollower(followers, following) == followers

\* not_following_back = followers - following
FollowBackTargets(followers, following) == followers \ following

\* the accounts followed back are added to the following snapshot
FollowBackRecording(cfg, conn, fs, bad) ==
    IF ~CanLoad(cfg, fs, "FOLLOWS_FILE") \/ ~CanLoad(cfg, fs, "FOLLOWERS_FILE")
      THEN Result(fs, << >>, "raised")
    ELSE
      LET following == get_follows_list(cfg, fs)
          followers == get_followers_list(cfg, fs)
          not_following_back == FollowBackTargets(followers, following)
          r == MutateEach("friendships.create", SetOrder(not_following_back), bad,
                          "Exception", conn, << >>)
          followed == {r.log[i].arg : i \in {j \in 1..Len(r.log) : r.log[j].res = "ok"}}
      IN  Result([fs EXCEPT ![cfg["FOLLOWS_FILE"]] = File(WriteLines(following \cup followed))],
                 r.log, r.outcome)

\* auto_follow_followers, past its guard
FollowBackResult(cfg, conn, fs, bad) ==
    IF ~CanLoad(cfg, fs, "FOLLOWS_FILE") \/ ~CanLoad(cfg, fs, "FOLLOWERS_FILE")
      THEN Result(fs, << >>, "raised")
    ELSE
      LET following == get_follows_list(cfg, fs)
          followers == get_followers_list(cfg, fs)
          not_following_back == FollowBackTargets(followers, following)
          r == MutateEach("friendships.create", SetOrder(not_following_back), bad,
                          "Exception", conn, << >>)
      IN  Result(fs, r.log, r.outcome)

\* the whole listing is taken, whatever count says
NoSlice(ids, count) == ids

\* ids[:count]
Slice(ids, count) == SubSeq(ids, 1, IF count < Len(ids) THEN count ELSE Len(ids))

\* auto_follow_followers_of_user, past its guard: ids is the remote's answer to
\* followers.ids(screen_name=user_screen_name), listFails: that call raises
FollowFollowersOfResult(cfg, conn, fs, ids, count, listFails, bad) ==
    IF ~CanLoad(cfg, fs, "FOLLOWS_FILE") \/ conn = "None"
      THEN Result(fs, << >>, "raised")
    ELSE IF listFails
      THEN Result(fs, <<Event("followers.ids", NoCursor, "error")>>, "raised")
    ELSE IF ~CanLoad(cfg, fs, "ALREADY_FOLLOWED_FILE")
      THEN Result(fs, <<Event("followers.ids", NoCursor, "ok")>>, "raised")
    ELSE
      LET following == get_follows_list(cfg, fs)
          followers_of_user == Range(Slice(ids, count))
          do_not_follow == get_do_not_follow_list(cfg, fs)
          r == MutateEach("friendships.create",
                          SetOrder({u \in followers_of_user :
                                      u \notin following /\ u \notin do_not_follow}),
                          bad, "TwitterHTTPError", conn,
                          <<Event("followers.ids", NoCursor, "ok")>>)
      IN  Result(fs, r.log, r.outcome)

\* users_keep_following = set([])
users_keep_following == {}

\* everyone the bot follows is taken for a non-follower
EveryoneFollowed(following, followers) == following

\* not_following_back = following - followers
NotFollowingBack(following, followers) == following \ followers

\* the ledger is overwritten with the non-followers of this run alone
ForgetLedger(not_following_back, already_followed_list) == not_following_back

\* already_followed = set(not_following_back);
\* already_followed.update(set(already_followed_list))
MergeLedger(not_following_back, already_followed_list) ==
    not_following_back \cup already_followed_list

\* the ledger is written after the loop, with the accounts whose destroy
\* succeeded
UnfollowThenRecord(cfg, conn, fs, bad) ==
    IF \/ ~CanLoad(cfg, fs, "FOLLOWS_FILE")
       \/ ~CanLoad(cfg, fs, "FOLLOWERS_FILE")
       \/ ~CanLoad(cfg, fs, "ALREADY_FOLLOWED_FILE")
      THEN Result(fs, << >>, "raised")
    ELSE
      LET following == get_follows_list(cfg, fs)
          followers == get_followers_list(cfg, fs)
          not_following_back == NotFollowingBack(following, followers)
          path == cfg["ALREADY_FOLLOWED_FILE"]
          r == MutateEach("friendships.destroy",
                          SetOrder(not_following_back \ users_keep_following),
                          bad, "nothing", conn, << >>)
          done == {r.log[i].arg : i \in {j \in 1..Len(r.log) : r.log[j].res = "ok"}}
          fs2 == [fs EXCEPT ![path] = File(WriteLines(MergeLedger(done, ReadSet(fs[path].lines))))]
      IN  IF r.outcome = "raised" THEN Result(fs, r.log, r.outcome)
          ELSE Result(fs2, Append(r.log, Event("open_wb", PathNo(path), "ok")), r.outcome)

\* auto_unfollow_nonfollowers, past its guard
UnfollowResult(cfg, conn, fs, bad) ==
    IF \/ ~CanLoad(cfg, fs, "FOLLOWS_FILE")
       \/ ~CanLoad(cfg, fs, "FOLLOWERS_FILE")
       \/ ~CanLoad(cfg, fs, "ALREADY_FOLLOWED_FILE")
      THEN Result(fs, << >>, "raised")
    ELSE
      LET following == get_follows_list(cfg, fs)
          followers == get_followers_list(cfg, fs)
          not_following_back == NotFollowingBack(following, followers)
          path == cfg["ALREADY_FOLLOWED_FILE"]
          already_followed == MergeLedger(not_following_back, ReadSet(fs[path].lines))
          fs2 == [fs EXCEPT ![path] = File(WriteLines(already_followed))]
          r == MutateEach("friendships.destroy",
                          SetOrder(not_following_back \ users_keep_following),
                          bad, "nothing", conn,
                          <<Event("open_wb", PathNo(path), "ok")>>)
      IN  Result(fs2, r.log, r.outcome)

\* users_keep_unmuted = set([])
users_keep_unmuted == {}

\* every followed account is muted again
MuteEveryone(following, muted) == following

\* not_muted = following - muted
NotMuted(following, muted) == following \ muted

\* auto_mute_following, past its guard: muted is the remote's answer to
\* mutes.users.ids, listFails: that call raises
MuteResult(cfg, conn, fs, muted, listFails, bad) ==
    IF ~CanLoad(cfg, fs, "FOLLOWS_FILE") \/ conn = "None"
         \/ "TWITTER_HANDLE" \notin DOMAIN cfg
      THEN Result(fs, << >>, "raised")
    ELSE IF listFails
      THEN Result(fs, <<Event("mutes.users.ids", NoCursor, "error")>>, "raised")
    ELSE
      LET following == get_follows_list(cfg, fs)
          not_muted == NotMuted(following, muted)
          r == MutateEach("mutes.users.create", SetOrder(not_muted \ users_keep_unmuted),
                          bad, "nothing", conn,
                          <<Event("mutes.users.ids", NoCursor, "ok")>>)
      IN  Result(fs, r.log, r.outcome)

\* users_keep_muted = set([])
users_keep_muted == {}

\* auto_unmute, past its guard
UnmuteResult(cfg, conn, fs, muted, listFails, bad) ==
    IF conn = "None" \/ "TWITTER_HANDLE" \notin DOMAIN cfg
      THEN Result(fs, << >>, "raised")
    ELSE IF listFails
      THEN Result(fs, <<Event("mutes.users.ids", NoCursor, "error")>>, "raised")
    ELSE
      LET r == MutateEach("mutes.users.destroy", SetOrder(muted \ users_keep_muted),
                          bad, "nothing", conn,
                          <<Event("mutes.users.ids", NoCursor, "ok")>>)
      IN  Result(fs, r.log, r.outcome)

(***************************************************************************)
(* Search and the operations on its results.  A search answer is a list of *)
(* tweets; results[i] is the remote's answer to the mutation attempted for *)
(* the i-th tweet: "ok", "blocked" (TwitterHTTPError whose message holds   *)
(* "blocked") or "error" (any other TwitterHTTPError).                     *)
(***************************************************************************)
Authors == Ids \cup {SelfId}

ScreenName(a) == IF a = SelfId THEN Handle ELSE "someone"

Tweet(i, a) == [id |-> i, user |-> [id |-> a, screen_name |-> ScreenName(a)]]

StatusLists ==
    UNION {{[i \in 1..n |-> Tweet(i, as[i])] : as \in [1..n -> Authors]} : n \in 0..MaxTweets}

\* auto_fav and auto_rt look at nothing of an author but whether it is the bot
\* itself: their search answers are written by the bot and by one other account
OwnOrOther == {st \in StatusLists : \A i \in 1..Len(st) : st[i].user.id \in {SelfId, Min(Ids)}}

\* search_tweets, past its guard, called by the three operations below
CanSearch(conn) == conn # "None"

\* the remote error is swallowed whatever its message
QuitsNever(res) == FALSE

\* if "blocked" not in str(e).lower(): quit()
Quits(res) == res # "blocked"

\* the bot's own tweets are not told apart
IgnoresSelf(user, following, do_not_follow, cfg) ==
    /\ user.id \notin following
    /\ user.id \notin do_not_follow

\* the ledger is not consulted
IgnoresLedger(user, following, do_not_follow, cfg) ==
    /\ user.screen_name # cfg["TWITTER_HANDLE"]
    /\ user.id \notin following

\* the test of lines 286-288 on the author of a tweet
ShouldFollow(user, following, do_not_follow, cfg) ==
    /\ user.screen_name # cfg["TWITTER_HANDLE"]
    /\ user.id \notin following
    /\ user.id \notin do_not_follow

\* the in-memory set is left as it was read
NotUpdated(following, ids) == following

\* following.update(set([tweet["user"]["id"]]))
update(following, ids) == following \cup ids

RECURSIVE FollowEach(_, _, _, _, _, _, _)
\* the loop of auto_follow from the i-th tweet on
FollowEach(statuses, i, results, following, do_not_follow, cfg, lg) ==
    IF i > Len(statuses) THEN [log |-> lg, outcome |-> "returned"]
    ELSE IF "TWITTER_HANDLE" \notin DOMAIN cfg THEN [log |-> lg, outcome |-> "raised"]
    ELSE
      LET user == statuses[i].user IN
      IF ShouldFollow(user, following, do_not_follow, cfg)
        THEN IF results[i] = "ok"
               THEN FollowEach(statuses, i + 1, results, update(following, {user.id}),
                               do_not_follow, cfg,
                               Append(lg, Event("friendships.create", user.id, "ok")))
             ELSE IF Quits(results[i])
               THEN [log |-> Append(lg, Event("friendships.create", user.id, results[i])),
                     outcome |-> "quit"]
             ELSE FollowEach(statuses, i + 1, results, following, do_not_follow, cfg,
                             Append(lg, Event("friendships.create", user.id, results[i])))
        ELSE FollowEach(statuses, i + 1, results, following, do_not_follow, cfg, lg)

\* auto_follow, past its guard: searchFails: search.tweets raises
FollowMatchingResult(cfg, conn, fs, statuses, searchFails, results) ==
    IF ~CanSearch(conn) THEN Result(fs, << >>, "raised")
    ELSE IF searchFails THEN Result(fs, <<Event("search.tweets", 0, "error")>>, "raised")
    ELSE IF ~CanLoad(cfg, fs, "FOLLOWS_FILE") \/ ~CanLoad(cfg, fs, "ALREADY_FOLLOWED_FILE")
      THEN Result(fs, <<Event("search.tweets", 0, "ok")>>, "raised")
    ELSE
      LET r == FollowEach(statuses, 1, results, get_follows_list(cfg, fs),
                          get_do_not_follow_list(cfg, fs), cfg,
                          <<Event("search.tweets", 0, "ok")>>)
      IN  Result(fs, r.log, r.outcome)

RECURSIVE ActOnEach(_, _, _, _, _, _)
\* the loop of auto_fav and of auto_rt from the i-th tweet on: every
\* TwitterHTTPError is caught
ActOnEach(call, statuses, i, results, cfg, lg) ==
    IF i > Len(statuses) THEN [log |-> lg, outcome |-> "returned"]
    ELSE IF "TWITTER_HANDLE" \notin DOMAIN cfg THEN [log |-> lg, outcome |-> "raised"]
    ELSE IF statuses[i].user.screen_name = cfg["TWITTER_HANDLE"]
      THEN ActOnEach(call, statuses, i + 1, results, cfg, lg)
    ELSE ActOnEach(call, statuses, i + 1, results, cfg,
                   Append(lg, Event(call, statuses[i].id,
                                    IF results[i] = "ok" THEN "ok" ELSE "error")))

\* auto_fav and auto_rt, past their guard
SearchAndActResult(call, cfg, conn, fs, statuses, searchFails, results) ==
    IF ~CanSearch(conn) THEN Result(fs, << >>, "raised")
    ELSE IF searchFails THEN Result(fs, <<Event("search.tweets", 0, "error")>>, "raised")
    ELSE
      LET r == ActOnEach(call, statuses, 1, results, cfg,
                         <<Event("search.tweets", 0, "ok")>>)
      IN  Result(fs, r.log, r.outcome)

(***************************************************************************)
(* Actions.                                                                *)
(***************************************************************************)
\* the process is alive and no method is under way: the caller may call one
Callable == running /\ op \in {"__init__", "rest"}

\* a method that changes nothing but the files, the log and the outcome; ans
\* is what its first remote call returned, when that call was made and succeeded
FinishWith(name, r, ans) ==
    /\ op' = name
    /\ files' = r.fs
    /\ log' = r.log
    /\ outcome' = r.outcome
    /\ answer' = IF r.log # << >> /\ r.log[1].res = "ok" THEN ans ELSE NoAnswer
    /\ running' = (r.outcome # "quit")
    /\ syncs' = IF name = "sync_follows" /\ r.outcome = "returned"
                THEN (IF syncs < 2 THEN syncs + 1 ELSE 2) ELSE 0
    /\ UNCHANGED <<BOT_CONFIG, TWITTER_CONNECTION, remote>>

\* a method that reads no listing and no search answer
Finish(name, r) == FinishWith(name, r, NoAnswer)

bot_setup ==
    /\ Callable
    /\ \E config_file \in ConfigFiles :
         LET r == SetupResult(BOT_CONFIG, TWITTER_CONNECTION, files, config_file) IN
         /\ BOT_CONFIG' = r.cfg
         /\ TWITTER_CONNECTION' = r.conn
         /\ files' = r.fs
         /\ op' = "bot_setup"
         /\ log' = <<Event("open_rb", ConfigNo(config_file), "ok")>>
         /\ outcome' = r.outcome
         /\ answer' = NoAnswer
         /\ syncs' = 0
         /\ UNCHANGED <<remote, running>>

\* no guard: the method goes on and its first BOT_CONFIG[...] raises KeyError
GuardMissing(name) ==
    /\ Callable
    /\ ~Configured(BOT_CONFIG)
    /\ Finish(name, Result(files, << >>, "raised"))

\* the guard every public method but bot_setup starts with:
\* if self.BOT_CONFIG == {}: print(...); return
NotSetUp(name) ==
    /\ Callable
    /\ ~Configured(BOT_CONFIG)
    /\ Finish(name, Result(files, << >>, "not_set_up"))

Ready == Callable /\ Configured(BOT_CONFIG)

sync_follows ==
    \/ NotSetUp("sync_follows")
    \/ /\ Ready
       /\ \E failAt \in 0..(2 * MaxId) :
            Finish("sync_follows",
                   SyncResult(BOT_CONFIG, TWITTER_CONNECTION, files, failAt))

\* a call of one of the three loads: it returns the set, or open() raises
LoadCall(name, key) ==
    \/ NotSetUp(name)
    \/ /\ Ready
       /\ Finish(name, Result(files, << >>,
                              IF CanLoad(BOT_CONFIG, files, key) THEN "returned" ELSE "raised"))

call_get_do_not_follow_list == LoadCall("get_do_not_follow_list", "ALREADY_FOLLOWED_FILE")

call_get_followers_list == LoadCall("get_followers_list", "FOLLOWERS_FILE")

call_get_follows_list == LoadCall("get_follows_list", "FOLLOWS_FILE")

search_tweets ==
    \/ NotSetUp("search_tweets")
    \/ /\ Ready
       /\ \E searchFails \in BOOLEAN :
            Finish("search_tweets",
                   IF ~CanSearch(TWITTER_CONNECTION) THEN Result(files, << >>, "raised")
                   ELSE IF searchFails
                     THEN Result(files, <<Event("search.tweets", 0, "error")>>, "raised")
                   ELSE Result(files, <<Event("search.tweets", 0, "ok")>>, "returned"))

auto_follow_followers ==
    \/ NotSetUp("auto_follow_followers")
    \/ /\ Ready
       /\ \E bad \in SUBSET Ids :
            Finish("auto_follow_followers",
                   FollowBackResult(BOT_CONFIG, TWITTER_CONNECTION, files, bad))

\* the remote's answers: the listing of the user's followers (or a failure of
\* that call, listFails), and the identifiers among them it refuses to follow
auto_follow_followers_of_user ==
    \/ NotSetUp("auto_follow_followers_of_user")
    \/ /\ Ready
       /\ \E U \in SUBSET Ids :
            \E count \in 0..Cardinality(U), bad \in SUBSET U, listFails \in BOOLEAN :
              /\ listFails => (U = {})
              /\ bad \subseteq Range(Slice(SetOrder(U), count))
              /\ FinishWith("auto_follow_followers_of_user",
                            FollowFollowersOfResult(BOT_CONFIG, TWITTER_CONNECTION, files,
                                                    SetOrder(U), count, listFails, bad),
                            Answer(SetOrder(U), count, << >>))

auto_unfollow_nonfollowers ==
    \/ NotSetUp("auto_unfollow_nonfollowers")
    \/ /\ Ready
       /\ \E bad \in SUBSET Ids :
            Finish("auto_unfollow_nonfollowers",
                   UnfollowResult(BOT_CONFIG, TWITTER_CONNECTION, files, bad))

auto_mute_following ==
    \/ NotSetUp("auto_mute_following")
    \/ /\ Ready
       /\ \E muted \in SUBSET Ids :
            \E bad \in SUBSET (Ids \ muted), listFails \in BOOLEAN :
              /\ listFails => (muted = {} /\ bad = {})
              /\ FinishWith("auto_mute_following",
                            MuteResult(BOT_CONFIG, TWITTER_CONNECTION, files,
                                       muted, listFails, bad),
                            Answer(SetOrder(muted), 0, << >>))

auto_unmute ==
    \/ NotSetUp("auto_unmute")
    \/ /\ Ready
       /\ \E muted \in SUBSET Ids :
            \E bad \in SUBSET muted, listFails \in BOOLEAN :
              /\ listFails => (muted = {})
              /\ FinishWith("auto_unmute",
                            UnmuteResult(BOT_CONFIG, TWITTER_CONNECTION, files,
                                         muted, listFails, bad),
                            Answer(SetOrder(muted), 0, << >>))

RECURSIVE Answers(_, _, _, _)
\* the remote's possible answers to the mutations for the tweets from the i-th
\* on, one of kinds each; for the tweet of a skipped author no mutation is ever
\* attempted and the answer is fixed to "ok"
Answers(statuses, i, skipped, kinds) ==
    IF i > Len(statuses) THEN {<< >>}
    ELSE {<<a>> \o rest :
            a \in (IF statuses[i].user.id \in skipped THEN {"ok"} ELSE kinds),
            rest \in Answers(statuses, i + 1, skipped, kinds)}

\* the authors auto_follow skips from the start
SkippedAuthors ==
    IF /\ CanLoad(BOT_CONFIG, files, "FOLLOWS_FILE")
       /\ CanLoad(BOT_CONFIG, files, "ALREADY_FOLLOWED_FILE")
      THEN {SelfId} \cup get_follows_list(BOT_CONFIG, files)
                    \cup get_do_not_follow_list(BOT_CONFIG, files)
      ELSE Authors

auto_follow ==
    \/ NotSetUp("auto_follow")
    \/ /\ Ready
       /\ LET skipped == SkippedAuthors IN
          \E statuses \in StatusLists :
            \E results \in Answers(statuses, 1, skipped, {"ok", "blocked", "error"}),
               searchFails \in BOOLEAN :
              /\ searchFails => (statuses = << >>)
              /\ FinishWith("auto_follow",
                            FollowMatchingResult(BOT_CONFIG, TWITTER_CONNECTION, files,
                                                 statuses, searchFails, results),
                            Answer(<< >>, 0, statuses))

auto_fav ==
    \/ NotSetUp("auto_fav")
    \/ /\ Ready
       /\ \E statuses \in OwnOrOther :
            \E results \in Answers(statuses, 1, {SelfId}, {"ok", "error"}),
               searchFails \in BOOLEAN :
              /\ searchFails => (statuses = << >>)
              /\ FinishWith("auto_fav",
                            SearchAndActResult("favorites.create", BOT_CONFIG,
                                               TWITTER_CONNECTION, files, statuses,
                                               searchFails, results),
                            Answer(<< >>, 0, statuses))

auto_rt ==
    \/ NotSetUp("auto_rt")
    \/ /\ Ready
       /\ \E statuses \in OwnOrOther :
            \E results \in Answers(statuses, 1, {SelfId}, {"ok", "error"}),
               searchFails \in BOOLEAN :
              /\ searchFails => (statuses = << >>)
              /\ FinishWith("auto_rt",
                            SearchAndActResult("statuses.retweet", BOT_CONFIG,
                                               TWITTER_CONNECTION, files, statuses,
                                               searchFails, results),
                            Answer(<< >>, 0, statuses))

\* the method has ended and the caller has seen how: the object and the disk
\* stay as the method left them until the next call
rest ==
    /\ running
    /\ ~Callable
    /\ op' = "rest"
    /\ log' = << >>
    /\ outcome' = "returned"
    /\ answer' = NoAnswer
    /\ UNCHANGED <<BOT_CONFIG, TWITTER_CONNECTION, files, remote, syncs, running>>

(***************************************************************************)
(* Construction: __init__ sets the two fields and calls bot_setup on a     *)
(* disk that holds no snapshot file yet; a construction whose bot_setup    *)
(* raises yields no bot.                                                   *)
(***************************************************************************)
Init ==
    /\ remote \in Remotes
    /\ \E config_file \in ConfigFiles :
         LET r == SetupResult(EmptyConfig, "None", [p \in Paths |-> NoFile], config_file) IN
         /\ r.outcome = "returned"
         /\ BOT_CONFIG = r.cfg
         /\ TWITTER_CONNECTION = r.conn
         /\ files = r.fs
    /\ op = "__init__"
    /\ log = << >>
    /\ outcome = "returned"
    /\ answer = NoAnswer
    /\ syncs = 0
    /\ running = TRUE

Next ==
    \/ bot_setup
    \/ sync_follows
    \/ call_get_do_not_follow_list
    \/ call_get_followers_list
    \/ call_get_follows_list
    \/ search_tweets
    \/ auto_fav
    \/ auto_rt
    \/ auto_follow
    \/ auto_follow_followers
    \/ auto_follow_followers_of_user
    \/ auto_unfollow_nonfollowers
    \/ auto_mute_following
    \/ auto_unmute
    \/ rest

\* the whole program
Spec == Init /\ [][Next]_vars

(***************************************************************************)
(* The operations that write no snapshot file and leave the configuration  *)
(* alone change nothing but op, log, outcome, answer, syncs and running,   *)
(* so the snapshots an operation finds are those bot_setup, sync_follows   *)
(* and auto_unfollow_nonfollowers can produce.  The two specifications     *)
(* below keep the whole family of remotes and leave out the other          *)
(* operations.                                                             *)
(***************************************************************************)
NextSync ==
    \/ bot_setup
    \/ sync_follows
    \/ rest

\* configuration and synchronisation
SpecSync == Init /\ [][NextSync]_vars

NextReconcile ==
    \/ bot_setup
    \/ sync_follows
    \/ auto_follow_followers
    \/ auto_unfollow_nonfollowers
    \/ rest

\* the two operations that reconcile the snapshots against each other
SpecReconcile == Init /\ [][NextReconcile]_vars

(***************************************************************************)
(* Every operation, against the remote of the running example: two        *)
(* followers, two followed accounts, one account in both, listed one       *)
(* identifier per page.                                                    *)
(***************************************************************************)
ScenarioRemotes ==
    {r \in Remotes : /\ r.followers = {IdBase + 1, IdBase + 2}
                     /\ r.following = {IdBase + 2, IdBase + 3}
                     /\ r.pageSize = 1}

InitScenario == Init /\ remote \in ScenarioRemotes

SpecScenario == InitScenario /\ [][Next]_vars

(***************************************************************************)
(* The remote graph between two calls of the bot: accounts follow and      *)
(* unfollow, and the relationships the bot created or destroyed take       *)
(* effect.  The next listing returns the new graph.                        *)
(***************************************************************************)
RemoteChanges(family) ==
    /\ Callable
    /\ \E r \in family \ {remote} : remote' = r
    /\ syncs' = 0
    /\ UNCHANGED <<BOT_CONFIG, TWITTER_CONNECTION, files, op, log, outcome, answer, running>>

\* one follower, 10, and any set of followed accounts; listings of one
\* identifier per page
LedgerRemotes ==
    {r \in Remotes : r.followers = {IdBase + 2} /\ r.pageSize = 1}

remote_changes == RemoteChanges(LedgerRemotes)

InitLedger == Init /\ remote \in LedgerRemotes

NextLedger ==
    \/ Next
    \/ remote_changes

\* every operation, against a remote whose set of followed accounts changes
SpecLedger == InitLedger /\ [][NextLedger]_vars


(***************************************************************************)
(* What the properties below read off a state.                             *)
(***************************************************************************)
SnapshotsReadable ==
    /\ CanLoad(BOT_CONFIG, files, "FOLLOWERS_FILE")
    /\ CanLoad(BOT_CONFIG, files, "FOLLOWS_FILE")
    /\ CanLoad(BOT_CONFIG, files, "ALREADY_FOLLOWED_FILE")

Followers == get_followers_list(BOT_CONFIG, files)
Following == get_follows_list(BOT_CONFIG, files)
Ledger == get_do_not_follow_list(BOT_CONFIG, files)

\* the positions of the log that hold a call of the given name
CallsOf(call) == {i \in 1..Len(log) : log[i].call = call}

\* the identifiers the given remote mutation was attempted for
Attempted(call) == {log[i].arg : i \in CallsOf(call)}

Mutations ==
    {"friendships.create", "friendships.destroy", "mutes.users.create", "mutes.users.destroy"}

\* some remote mutation of the last operation failed with a remote error
MutationFailed == \E i \in 1..Len(log) : log[i].call \in Mutations /\ log[i].res # "ok"

BestEffortOps ==
    {"auto_follow_followers", "auto_follow_followers_of_user",
     "auto_unfollow_nonfollowers", "auto_mute_following", "auto_unmute"}

(***************************************************************************)
(* C1: in each best-effort bulk operation a remote mutation that fails is  *)
(* logged and the loop goes on: the operation returns normally, and        *)
(* follow-back and unfollow-nonfollowers have attempted the mutation for   *)
(* every identifier of their target set.                                   *)
(***************************************************************************)
C1_FailureNeverStopsLoop ==
    (op \in BestEffortOps /\ MutationFailed) =>
        /\ outcome = "returned"
        /\ op = "auto_follow_followers" =>
             Attempted("friendships.create") = Followers \ Following
        /\ op = "auto_unfollow_nonfollowers" =>
             Attempted("friendships.destroy") = Following \ Followers

(***************************************************************************)
(* C2: in auto_follow a remote error without "blocked" in its message is   *)
(* the last call of the run, which quits; a "blocked" error never ends the *)
(* run.                                                                    *)
(***************************************************************************)
C2_FollowMatchingAbort ==
    op = "auto_follow" =>
        /\ \A i \in CallsOf("friendships.create") :
              log[i].res = "error" => (i = Len(log) /\ outcome = "quit")
        /\ outcome = "quit" =>
              (log # << >> /\ log[Len(log)] = Event("friendships.create", log[Len(log)].arg, "error"))

\* a "blocked" error on one tweet, then the create for the next tweet
C2_Witness ==
    /\ op = "auto_follow"
    /\ Len(log) = 3
    /\ log[2].res = "blocked"
    /\ log[3].call = "friendships.create"
    /\ log[3].res = "error"
    /\ outcome = "quit"

(***************************************************************************)
(* C3: a sync_follows run, also one a remote error cuts short, leaves each *)
(* of the two snapshots either as it was or equal to the complete remote   *)
(* listing.                                                                *)
(***************************************************************************)
C3_SyncAllOrNothing ==
    [][(op' = "sync_follows" /\ SnapshotsReadable /\ SnapshotsReadable') =>
          /\ Followers' \in {Followers, remote.followers}
          /\ Following' \in {Following, remote.following}]_vars

(***************************************************************************)
(* C4: auto_unfollow_nonfollowers merges following - followers into the    *)
(* ledger before its first destroy call, and the ledger it leaves is the   *)
(* ledger it found plus following - followers, whatever the remote calls   *)
(* did.                                                                    *)
(***************************************************************************)
LedgerNo == PathNo(BOT_CONFIG["ALREADY_FOLLOWED_FILE"])

C4_LedgerMergedFirst ==
    [][(op' = "auto_unfollow_nonfollowers" /\ SnapshotsReadable) =>
          /\ Ledger' = Ledger \cup (Following \ Followers)
          /\ \E w \in CallsOf("open_wb")' :
                /\ log'[w].arg = LedgerNo
                /\ \A d \in CallsOf("friendships.destroy")' : w < d]_vars

\* a run cut short by a failed destroy: the ledger holds an identifier whose
\* destroy was never attempted
C4_Witness ==
    /\ op = "auto_unfollow_nonfollowers"
    /\ outcome = "raised"
    /\ SnapshotsReadable
    /\ \E id \in Ledger : id \notin Attempted("friendships.destroy")

(***************************************************************************)
(* C5: auto_unfollow_nonfollowers calls destroy only for identifiers of    *)
(* following - followers - keep-set, and for all of them when no remote    *)
(* call fails.                                                             *)
(***************************************************************************)
C5_UnfollowTargets ==
    (op = "auto_unfollow_nonfollowers" /\ outcome # "not_set_up" /\ SnapshotsReadable) =>
        /\ Attempted("friendships.destroy")
              \subseteq (Following \ Followers) \ users_keep_following
        /\ Attempted("friendships.destroy") \cap Followers = {}
        /\ ~MutationFailed =>
              /\ outcome = "returned"
              /\ Attempted("friendships.destroy")
                    = (Following \ Followers) \ users_keep_following

\* followers = {9, 10}, following = {10, 11}: exactly 11 is unfollowed
C5_Witness ==
    /\ op = "auto_unfollow_nonfollowers"
    /\ outcome = "returned"
    /\ SnapshotsReadable
    /\ Followers = {IdBase + 1, IdBase + 2}
    /\ Following = {IdBase + 2, IdBase + 3}
    /\ Attempted("friendships.destroy") = {IdBase + 3}

(***************************************************************************)
(* C6: auto_follow_followers attempts a create for exactly the identifiers *)
(* of followers - following, each once, and for none the following         *)
(* snapshot holds.                                                         *)
(***************************************************************************)
C6_FollowBackTargets ==
    (op = "auto_follow_followers" /\ outcome # "not_set_up" /\ SnapshotsReadable) =>
        /\ outcome = "returned"
        /\ Attempted("friendships.create") = Followers \ Following
        /\ Attempted("friendships.create") \cap Following = {}
        /\ Cardinality(CallsOf("friendships.create"))
              = Cardinality(Attempted("friendships.create"))

\* followers = {9, 10}, following = {10, 11}: exactly 9 is followed back,
\* here with a create the remote refused
C6_Witness ==
    /\ op = "auto_follow_followers"
    /\ SnapshotsReadable
    /\ Followers = {IdBase + 1, IdBase + 2}
    /\ Following = {IdBase + 2, IdBase + 3}
    /\ log = <<Event("friendships.create", IdBase + 1, "error")>>

(***************************************************************************)
(* C7: a sync_follows that returns has called each listing first without   *)
(* a cursor, then with each next_cursor the remote returned, up to and     *)
(* including the first page whose next_cursor is 0; the snapshot read back *)
(* is the union of the identifiers of these pages.                         *)
(***************************************************************************)
CursorsOf(call) ==
    LET IsCall(e) == e.call = call
        cs == SelectSeq(log, IsCall)
    IN  [i \in 1..Len(cs) |-> cs[i].arg]

PagedThrough(call, S, snapshot) ==
    LET cs == CursorsOf(call) IN
    /\ Len(cs) >= 1
    /\ cs[1] = NoCursor
    /\ \A i \in 1..(Len(cs) - 1) :
          /\ ListingPage(S, cs[i]).next_cursor # 0
          /\ cs[i + 1] = ListingPage(S, cs[i]).next_cursor
    /\ ListingPage(S, cs[Len(cs)]).next_cursor = 0
    /\ snapshot = UNION {ListingPage(S, cs[i]).ids : i \in 1..Len(cs)}

C7_PagerFollowsCursors ==
    (op = "sync_follows" /\ outcome = "returned") =>
        /\ PagedThrough("followers.ids", remote.followers, Followers)
        /\ PagedThrough("friends.ids", remote.following, Following)

\* three pages of one follower each: cursors 2, 3, 0 and three calls
C7_Witness ==
    /\ op = "sync_follows"
    /\ outcome = "returned"
    /\ CursorsOf("followers.ids") = <<NoCursor, 2, 3>>
    /\ Followers = {IdBase + 1, IdBase + 2, IdBase + 3}

(***************************************************************************)
(* C8: a sync_follows that returns right after a sync_follows that         *)
(* returned, the remote being the same, leaves every snapshot file as the  *)
(* first run left it, line for line.                                       *)
(***************************************************************************)
C8_SyncIdempotent ==
    [][(syncs >= 1 /\ op' = "sync_follows" /\ outcome' = "returned" /\ remote' = remote)
          => files' = files]_vars

\* two runs in a row over a listing of several pages
C8_Witness ==
    /\ syncs = 2
    /\ SnapshotsReadable
    /\ Len(CursorsOf("followers.ids")) >= 2
    /\ Followers # {}

(***************************************************************************)
(* C9: no snapshot file holds the same identifier on two lines.            *)
(***************************************************************************)
C9_NoDuplicateLines ==
    \A p \in Paths :
        \A i, j \in 1..Len(files[p].lines) :
            i # j => files[p].lines[i] # files[p].lines[j]

(***************************************************************************)
(* C10 as claimed: once BOT_CONFIG is non-empty no call empties it.        *)
(***************************************************************************)
C10_NeverUnconfigured ==
    [][Configured(BOT_CONFIG) => Configured(BOT_CONFIG')]_vars

\* the file holds a line that gives a required parameter the empty value
HasEmptyRequired(config_file) ==
    \E i \in 1..Len(config_file) :
        /\ Len(config_file[i]) >= 2
        /\ config_file[i][1] \in Range(required_parameters)
        /\ config_file[i][2] = ""

(***************************************************************************)
(* C10 as amended: only bot_setup empties BOT_CONFIG, and a BOT_CONFIG     *)
(* that holds every required parameter is emptied only by a file that      *)
(* gives a required parameter the empty value.                             *)
(***************************************************************************)
C10_EmptiedOnlyByEmptyValue ==
    [][(Configured(BOT_CONFIG) /\ ~Configured(BOT_CONFIG')) =>
          /\ op' = "bot_setup"
          /\ ~missing_parameters(BOT_CONFIG) =>
                HasEmptyRequired(ConfigFileList[log'[1].arg])]_vars

\* a bot_setup with the file that lacks a required line has left the bot Ready
C10_Witness ==
    /\ op = "bot_setup"
    /\ log = <<Event("open_rb", ConfigNo(MissingKeyConfig), "ok")>>
    /\ outcome = "returned"
    /\ Configured(BOT_CONFIG)
    /\ ~missing_parameters(BOT_CONFIG)

(***************************************************************************)
(* C11: the bot becomes Ready (BOT_CONFIG non-empty) only in a bot_setup   *)
(* after which all eight required parameters are present and non-empty and *)
(* the connection exists; a bot_setup that finds a required parameter      *)
(* missing or empty leaves BOT_CONFIG empty and the connection as it was.  *)
(***************************************************************************)
C11_ReadyOnlyByValidSetup ==
    [][/\ (~Configured(BOT_CONFIG) /\ Configured(BOT_CONFIG')) =>
             /\ op' = "bot_setup"
             /\ ~missing_parameters(BOT_CONFIG')
             /\ TWITTER_CONNECTION' = "connection"
       /\ (op' = "bot_setup" /\ missing_parameters(BOT_CONFIG')) =>
             /\ ~Configured(BOT_CONFIG')
             /\ TWITTER_CONNECTION' = TWITTER_CONNECTION]_vars

PublicOperations ==
    {"sync_follows", "get_do_not_follow_list", "get_followers_list", "get_follows_list",
     "search_tweets", "auto_fav", "auto_rt", "auto_follow", "auto_follow_followers",
     "auto_follow_followers_of_user", "auto_unfollow_nonfollowers",
     "auto_mute_following", "auto_unmute"}

(***************************************************************************)
(* C12: while BOT_CONFIG is empty every public operation but bot_setup     *)
(* issues no remote call, opens no file, raises nothing (it reports "not   *)
(* set up" and returns) and leaves configuration, connection and files as  *)
(* they were.                                                              *)
(***************************************************************************)
C12_UnconfiguredNoOp ==
    [][(~Configured(BOT_CONFIG) /\ op' \in PublicOperations) =>
          /\ log' = << >>
          /\ outcome' = "not_set_up"
          /\ files' = files
          /\ BOT_CONFIG' = BOT_CONFIG
          /\ TWITTER_CONNECTION' = TWITTER_CONNECTION
          /\ running']_vars

\* an unconfigured bot that still holds a connection and whose snapshots name
\* an account to unfollow: auto_unfollow_nonfollowers has done nothing
C12_Witness ==
    /\ op = "auto_unfollow_nonfollowers"
    /\ outcome = "not_set_up"
    /\ ~Configured(BOT_CONFIG)
    /\ TWITTER_CONNECTION = "connection"
    /\ ReadSet(files["follows.txt"].lines) \ ReadSet(files["followers.txt"].lines) # {}
    /\ files["already.txt"].lines = << >>

\* the lines of the snapshot file at a path
Lines(path) == files[path].lines

\* the operations that only read the snapshots
ReadingOperations ==
    {"auto_follow", "auto_follow_followers", "auto_follow_followers_of_user",
     "auto_mute_following", "auto_unmute", "auto_fav", "auto_rt", "search_tweets",
     "get_do_not_follow_list", "get_followers_list", "get_follows_list"}

(***************************************************************************)
(* C13: the contents of the followers and of the following snapshot change *)
(* only in sync_follows, the contents of the ledger only in                *)
(* auto_unfollow_nonfollowers, and the operations that only read leave     *)
(* the three files exactly as they were.  (bot_setup creates a missing     *)
(* file with no line: the snapshot is empty before and after.)             *)
(***************************************************************************)
C13_WritesConfinedByRole ==
    [][/\ Lines("followers.txt")' # Lines("followers.txt") => op' = "sync_follows"
       /\ Lines("follows.txt")' # Lines("follows.txt") => op' = "sync_follows"
       /\ Lines("already.txt")' # Lines("already.txt") => op' = "auto_unfollow_nonfollowers"
       /\ op' \in ReadingOperations => files' = files]_vars

\* a follow-back that followed 9: the following snapshot still is {10, 11}
C13_Witness ==
    /\ op = "auto_follow_followers"
    /\ SnapshotsReadable
    /\ log = <<Event("friendships.create", IdBase + 1, "ok")>>
    /\ Following = {IdBase + 2, IdBase + 3}
    /\ Ledger = {IdBase + 3}

(***************************************************************************)
(* C14 as claimed: an identifier enters the ledger only once its destroy   *)
(* call has succeeded in the same run.                                     *)
(***************************************************************************)
C14_RecordedAfterDestroy ==
    [][(op' = "auto_unfollow_nonfollowers" /\ SnapshotsReadable) =>
          \A id \in Ledger' \ Ledger :
              \E i \in CallsOf("friendships.destroy")' :
                  log'[i].arg = id /\ log'[i].res = "ok"]_vars

\* the positions of the log at which a snapshot file is opened for writing
Writes == CallsOf("open_wb") \cup CallsOf("open_ab")

\* the path sync_follows writes the pages of a listing to
RoleOf(call) == IF call = "followers.ids" THEN PathNo(BOT_CONFIG["FOLLOWERS_FILE"])
                ELSE PathNo(BOT_CONFIG["FOLLOWS_FILE"])

(***************************************************************************)
(* C14 as amended: in sync_follows every write of a snapshot comes right   *)
(* after a successful listing call of that snapshot's role; in             *)
(* auto_unfollow_nonfollowers the one write of the ledger is the first     *)
(* thing done, before any destroy call, so that the ledger holds every     *)
(* identifier of following - followers, those whose destroy failed or was  *)
(* never attempted included.                                               *)
(***************************************************************************)
C14_LedgerWrittenBeforeDestroy ==
    /\ (op = "sync_follows" /\ outcome # "not_set_up") =>
          \A w \in Writes :
              /\ w > 1
              /\ log[w - 1].call \in {"followers.ids", "friends.ids"}
              /\ log[w - 1].res = "ok"
              /\ log[w].arg = RoleOf(log[w - 1].call)
    /\ (op = "auto_unfollow_nonfollowers" /\ outcome # "not_set_up" /\ SnapshotsReadable) =>
          /\ Writes = {1}
          /\ log[1].arg = LedgerNo
          /\ Following \ Followers \subseteq Ledger
          /\ Attempted("friendships.destroy") \subseteq Ledger
          /\ outcome = "raised" =>
                log[Len(log)] = Event("friendships.destroy", log[Len(log)].arg, "error")

\* a run cut short by the failed destroy of 11: the ledger holds 11, which the
\* bot still follows
C14_Witness ==
    /\ op = "auto_unfollow_nonfollowers"
    /\ outcome = "raised"
    /\ SnapshotsReadable
    /\ log[Len(log)] = Event("friendships.destroy", IdBase + 3, "error")
    /\ IdBase + 3 \in Ledger
    /\ IdBase + 3 \in remote.following

\* the last operation got the list of muted accounts from the remote
MutedListed == log # << >> /\ log[1] = Event("mutes.users.ids", NoCursor, "ok")

\* muted = set(...["ids"]) as the remote returned it at the start of the call
Muted == Range(answer.ids)

\* each identifier the mutation was attempted for was attempted once
OnceEach(call) == Cardinality(CallsOf(call)) = Cardinality(Attempted(call))

(***************************************************************************)
(* C15: auto_mute_following calls mutes.users.create only for identifiers  *)
(* of following - muted - keep-set and auto_unmute calls                   *)
(* mutes.users.destroy only for identifiers of muted - keep-set, muted     *)
(* being the remote's answer at the start of the call; when no remote call *)
(* fails, for all of them, once each.                                      *)
(***************************************************************************)
C15_MuteTargets ==
    /\ (op = "auto_mute_following" /\ MutedListed) =>
          /\ Attempted("mutes.users.create") \subseteq (Following \ Muted) \ users_keep_unmuted
          /\ OnceEach("mutes.users.create")
          /\ Attempted("mutes.users.destroy") = {}
          /\ ~MutationFailed =>
                /\ outcome = "returned"
                /\ Attempted("mutes.users.create") = (Following \ Muted) \ users_keep_unmuted
    /\ (op = "auto_unmute" /\ MutedListed) =>
          /\ Attempted("mutes.users.destroy") \subseteq Muted \ users_keep_muted
          /\ OnceEach("mutes.users.destroy")
          /\ Attempted("mutes.users.create") = {}
          /\ ~MutationFailed =>
                /\ outcome = "returned"
                /\ Attempted("mutes.users.destroy") = Muted \ users_keep_muted

\* following = {10, 11}, muted = {9, 10}: exactly 11 is muted
C15_Witness ==
    /\ op = "auto_mute_following"
    /\ outcome = "returned"
    /\ MutedListed
    /\ Following = {IdBase + 2, IdBase + 3}
    /\ Muted = {IdBase + 1, IdBase + 2}
    /\ Attempted("mutes.users.create") = {IdBase + 3}

\* the last operation got the followers of the given user from the remote
FollowersOfListed == log # << >> /\ log[1] = Event("followers.ids", NoCursor, "ok")

\* followers_of_user: the listing the remote returned, cut to count identifiers
followers_of_user == Range(Slice(answer.ids, answer.count))

(***************************************************************************)
(* C16: auto_follow_followers_of_user attempts a create for exactly the    *)
(* identifiers of remote_set - following - ledger, once each, remote_set   *)
(* being the first count identifiers of the remote listing: never more     *)
(* than count creates, none for an identifier of the following snapshot    *)
(* or of the ledger.                                                       *)
(***************************************************************************)
C16_FollowFollowersOfTargets ==
    (op = "auto_follow_followers_of_user" /\ FollowersOfListed /\ SnapshotsReadable) =>
        /\ outcome = "returned"
        /\ Attempted("friendships.create") = (followers_of_user \ Following) \ Ledger
        /\ OnceEach("friendships.create")
        /\ Cardinality(CallsOf("friendships.create")) <= answer.count
        /\ Attempted("friendships.create") \cap Following = {}
        /\ Attempted("friendships.create") \cap Ledger = {}

\* the listing 9, 10, 11 with count = 2, the ledger {9} and nobody followed:
\* exactly 10 is followed
C16_Witness ==
    /\ op = "auto_follow_followers_of_user"
    /\ FollowersOfListed
    /\ SnapshotsReadable
    /\ answer.ids = <<IdBase + 1, IdBase + 2, IdBase + 3>>
    /\ answer.count = 2
    /\ Following = {}
    /\ Ledger = {IdBase + 1}
    /\ Attempted("friendships.create") = {IdBase + 2}

\* the last operation got an answer to its search
SearchAnswered == log # << >> /\ log[1] = Event("search.tweets", 0, "ok")

\* the tweets of the search answer whose author passes the three tests against
\* the handle and the two snapshots
Passing ==
    {i \in 1..Len(answer.statuses) :
        /\ answer.statuses[i].user.screen_name # BOT_CONFIG["TWITTER_HANDLE"]
        /\ answer.statuses[i].user.id \notin Following
        /\ answer.statuses[i].user.id \notin Ledger}

(***************************************************************************)
(* C17: auto_follow calls friendships.create only for the author of a      *)
(* search result who is not the bot itself, not in the following snapshot  *)
(* and not in the ledger; for the other results it calls nothing: the run  *)
(* issues the search, at most one create per passing result, and no other  *)
(* remote call.                                                            *)
(***************************************************************************)
C17_FollowMatchingSkips ==
    (op = "auto_follow" /\ SearchAnswered /\ SnapshotsReadable) =>
        /\ Attempted("friendships.create")
              \subseteq {answer.statuses[i].user.id : i \in Passing}
        /\ Attempted("friendships.create") \cap ({SelfId} \cup Following \cup Ledger) = {}
        /\ Cardinality(CallsOf("friendships.create")) <= Cardinality(Passing)
        /\ \A i \in 2..Len(log) : log[i].call = "friendships.create"

\* the bot follows 10; a tweet of the bot itself, then a tweet of 11: one
\* create, for 11
C17_Witness ==
    /\ op = "auto_follow"
    /\ SearchAnswered
    /\ SnapshotsReadable
    /\ Following = {IdBase + 2}
    /\ Len(answer.statuses) = 2
    /\ answer.statuses[1].user.id = SelfId
    /\ answer.statuses[2].user.id = IdBase + 3
    /\ log = <<Event("search.tweets", 0, "ok"), Event("friendships.create", IdBase + 3, "ok")>>

\* the identifiers on the lines of the ledger file
LedgerFile == ReadSet(Lines("already.txt"))

(***************************************************************************)
(* C18: no step removes an identifier from the ledger, and no auto_follow  *)
(* or auto_follow_followers_of_user calls friendships.create for an        *)
(* identifier the ledger held when the run started.  By induction over the *)
(* steps: once an identifier is in the ledger it stays, and no later run   *)
(* of these two operations creates a relationship with it.                 *)
(***************************************************************************)
C18_LedgerRemembers ==
    [][/\ LedgerFile \subseteq LedgerFile'
       /\ op' \in {"auto_follow", "auto_follow_followers_of_user"} =>
             Attempted("friendships.create")' \cap LedgerFile = {}]_vars

\* 9 was unfollowed and is in the ledger and no longer in the following
\* snapshot; a search returns a tweet of 9 and a tweet of 11: one create, for 11
C18_Witness ==
    /\ op = "auto_follow"
    /\ SearchAnswered
    /\ SnapshotsReadable
    /\ Ledger = {IdBase + 1}
    /\ IdBase + 1 \notin Following
    /\ IdBase + 1 \notin remote.following
    /\ Len(answer.statuses) = 2
    /\ answer.statuses[1].user.id = IdBase + 1
    /\ answer.statuses[2].user.id = IdBase + 3
    /\ log = <<Event("search.tweets", 0, "ok"), Event("friendships.create", IdBase + 3, "ok")>>

\* the tweets of the search answer written by the given author
TweetsOf(a) == {i \in 1..Len(answer.statuses) : answer.statuses[i].user.id = a}

\* the create calls of the last operation for the given author
CreatesFor(a) == {i \in CallsOf("friendships.create") : log[i].arg = a}

(***************************************************************************)
(* C19: in one auto_follow run no create for an author comes after a       *)
(* successful create for that author (so an author gets at most one        *)
(* successful create), and a create that failed with "blocked" does not    *)
(* keep the author from being attempted again: an author of a run that     *)
(* returned, whose creates all failed with "blocked", was attempted once   *)
(* for each of the author's tweets.                                        *)
(***************************************************************************)
C19_OneSuccessPerAuthor ==
    (op = "auto_follow" /\ SearchAnswered /\ SnapshotsReadable) =>
        /\ \A i, j \in CallsOf("friendships.create") :
              (i < j /\ log[i].arg = log[j].arg) => log[i].res = "blocked"
        /\ \A a \in Ids :
              Cardinality({i \in CreatesFor(a) : log[i].res = "ok"}) <= 1
        /\ outcome = "returned" =>
              \A a \in Attempted("friendships.create") :
                  (\A i \in CreatesFor(a) : log[i].res = "blocked") =>
                      Cardinality(CreatesFor(a)) = Cardinality(TweetsOf(a))

\* two tweets of 9: the first create failed with "blocked", the second tweet
\* was attempted as well and its create succeeded
C19_Witness ==
    /\ op = "auto_follow"
    /\ outcome = "returned"
    /\ Cardinality(TweetsOf(IdBase + 1)) = 2
    /\ log = <<Event("search.tweets", 0, "ok"),
               Event("friendships.create", IdBase + 1, "blocked"),
               Event("friendships.create", IdBase + 1, "ok")>>
=============================================================================
